---------------------------- MODULE Spec2Model ----------------------------
(***************************************************************************)
(* Model of AudioManager (src/src/content/modules/audioManager.js): the    *)
(* Web Audio routing manager of the tab volume control content script.     *)
(*                                                                         *)
(* Objects of the platform are modelled by identity: an AudioContext and   *)
(* the GainNode created from it carry the same positive number, 0 is the   *)
(* JavaScript null.  element._audioSource is modelled by the number of the *)
(* GainNode the MediaElementAudioSourceNode was connected to (0: the       *)
(* property is not set).  A gain value is kept in hundredths; gain is the  *)
(* gain.value of the node this.gainNode refers to.                         *)
(***************************************************************************)
EXTENDS Integers, FiniteSets, Sequences, TLC

\* ---------------------------------------------------------------- bounds
\* Number of AudioContext objects the page may construct in one run.
MaxCtx == 2

\* The media elements of the page.
Elements == {"e1", "e2"}

\* Volume percentages handed to setGainValue.
Volumes == {0, 100, 200, 500}

\* window.location.hostname of the page, spelled so that toLowerCase acts.
PageHostnames == {"Page.Example"}

\* window.location.origin of the page.
PageOrigin == "https://page.example"

NoElem == "none"

\* ------------------------------------------------------------- constants
\* VOLUME_MAX of ./constants.js: 100% is unity gain.
VOLUME_MAX == 100

\* Unit of the modelled gain value: gain.value 1.0 is stored as GainScale.
GainScale == 100

\* gain.value of a freshly created GainNode (1.0).
DefaultGain == GainScale

\* ------------------------------------------------------------------ URLs
\* A URL string is modelled by what the code asks of it: whether it is
\* empty (falsy), which prefix it starts with, whether new URL() parses it
\* and which origin new URL() reports.
UrlEmpty == [kind |-> "empty", origin |-> ""]
UrlSame == [kind |-> "http", origin |-> PageOrigin]
UrlCross == [kind |-> "http", origin |-> "https://cdn.example"]
UrlBlob == [kind |-> "blob", origin |-> PageOrigin]
UrlData == [kind |-> "data", origin |-> "null"]
UrlBad == [kind |-> "bad", origin |-> ""]

Urls == {UrlEmpty, UrlSame, UrlCross, UrlBlob, UrlData, UrlBad}

\* Boolean(src): the empty string is falsy.
Truthy(u) == u.kind # "empty"

\* new URL(src) throws a TypeError on a string that is not a URL.
UrlThrows(u) == u.kind \in {"bad", "empty"}

\* new URL(src).origin: a blob: URL reports the origin it embeds, a data:
\* URL reports the opaque origin "null".
UrlOrigin(u) == IF u.kind = "data" THEN "null" ELSE u.origin

\* The state of a media element the code reads: crossOrigin, src,
\* currentSrc and the src of its first <source> child.
MediaNone == [crossOrigin |-> "null", src |-> UrlEmpty, currentSrc |-> UrlEmpty, sourceSrc |-> UrlEmpty]
MediaSame == [crossOrigin |-> "null", src |-> UrlSame, currentSrc |-> UrlSame, sourceSrc |-> UrlEmpty]
MediaCross == [crossOrigin |-> "null", src |-> UrlCross, currentSrc |-> UrlCross, sourceSrc |-> UrlEmpty]

\* The sources the page gives its elements in the manager's state machine.
PageMedia == {MediaNone, MediaSame, MediaCross}

\* String.prototype.toLowerCase on the hostnames of the model.
ToLowerCase(h) == IF h = "Page.Example" THEN "page.example" ELSE h

VARIABLES
  audioContext,       \* this.audioContext: 0 (null) or the context's number
  gainNode,           \* this.gainNode: 0 (null) or the gain node's number
  connectedElements,  \* this.connectedElements
  blockedSites,       \* this.blockedSites
  blockedElements,    \* this.blockedElements
  audioSource,        \* element._audioSource, per element
  media,              \* crossOrigin / src / currentSrc / <source> per element
  hostname,           \* window.location.hostname
  ctxCount,           \* AudioContext objects constructed so far
  wired,              \* this.gainNode is connected to the destination
  gain,               \* this.gainNode.gain.value, in 1/GainScale
  last                \* the call that was made last and what it returned

vars == <<audioContext, gainNode, connectedElements, blockedSites,
          blockedElements, audioSource, media, hostname, ctxCount, wired,
          gain, last>>

Call(op, e, arg, ret, path) ==
  [op |-> op, e |-> e, arg |-> arg, ret |-> ret, path |-> path]

\* ------------------------------------------------------------ constructor
Init ==
  /\ audioContext = 0
  /\ gainNode = 0
  /\ connectedElements = {}
  /\ blockedSites = {}
  /\ blockedElements = {}
  /\ audioSource = [e \in Elements |-> 0]
  /\ media \in [Elements -> PageMedia]
  /\ hostname \in PageHostnames
  /\ ctxCount = 0
  /\ wired = FALSE
  /\ gain = DefaultGain
  /\ last = Call("new", NoElem, 0, TRUE, "none")

\* ------------------------------------------------------------ site cache
isSiteBlocked == ToLowerCase(hostname) \in blockedSites

\* --------------------------------------------------- isCrossOriginElement
\* Lines 60-71: the element has no crossOrigin attribute and a currentSrc.
\* "true": return true; "next": fall through to the source list.
CurrentSrcCheck(m) ==
  IF m.crossOrigin = "null" /\ Truthy(m.currentSrc)
  THEN IF UrlThrows(m.currentSrc) THEN "true"
       ELSE IF UrlOrigin(m.currentSrc) # PageOrigin THEN "true" ELSE "next"
  ELSE "next"

\* Lines 73-77: [src, currentSrc, querySelector('source')?.src].filter(Boolean)
SourceList(m) ==
  SelectSeq(<<m.src, m.currentSrc, m.sourceSrc>>, Truthy)

\* Faulty variant: a source that does not parse counts as same-origin.
SourceIsCrossFailOpen(u) ==
  IF u.kind \in {"blob", "data"} THEN "false"
  ELSE IF UrlThrows(u) THEN "false"
  ELSE IF UrlOrigin(u) # PageOrigin THEN "true" ELSE "false"

\* Lines 85-99: the callback of sources.some; "throw" when new URL throws.
SourceIsCross(u) ==
  IF u.kind = "blob" THEN "false"
  ELSE IF u.kind = "data" THEN "false"
  ELSE IF UrlThrows(u) THEN "throw"
  ELSE IF UrlOrigin(u) # PageOrigin THEN "true" ELSE "false"

\* Array.prototype.some: left to right, stops at the first true, and an
\* exception of the callback leaves the loop.
RECURSIVE Some(_)
Some(srcs) ==
  IF srcs = <<>> THEN "false"
  ELSE LET r == SourceIsCross(Head(srcs))
       IN IF r = "false" THEN Some(Tail(srcs)) ELSE r

\* The whole function on the state m of an element.
CrossOriginOf(m) ==
  IF CurrentSrcCheck(m) = "true" THEN TRUE
  ELSE IF SourceList(m) = <<>> THEN FALSE
  ELSE Some(SourceList(m)) \in {"true", "throw"}

isCrossOriginElement(element) == CrossOriginOf(media[element])

\* ------------------------------------------------ shouldBlockAmplification
\* Faulty variant: a blocked site blocks every element of the page.
ShouldBlockSiteWide(element) ==
  IF isSiteBlocked \/ element \in blockedElements THEN TRUE
  ELSE isCrossOriginElement(element)

\* Faulty variant: the cache of failed elements is not consulted.
ShouldBlockLiveOnly(element) == isCrossOriginElement(element)

shouldBlockAmplification(element) ==
  IF element \in blockedElements THEN TRUE
  ELSE isCrossOriginElement(element)

\* -------------------------------------------------------- initAudioContext
GraphOutcomes == {"ok", "ctorThrows", "createGainThrows", "connectThrows"}

\* What initAudioContext returns and leaves behind when the platform
\* behaves as outcome says: the constructor throws, createGain throws,
\* gainNode.connect(destination) throws, or nothing throws.
InitResult(outcome) ==
  LET id == ctxCount + 1
      same == [ret |-> TRUE, ctx |-> audioContext, gn |-> gainNode,
               wired |-> wired, count |-> ctxCount, built |-> FALSE]
  IN IF audioContext # 0 THEN same
     ELSE IF outcome = "ctorThrows"
       THEN [same EXCEPT !.ret = FALSE]
     ELSE IF outcome = "createGainThrows"
       THEN [ret |-> FALSE, ctx |-> id, gn |-> gainNode,
             wired |-> wired, count |-> id, built |-> TRUE]
     ELSE IF outcome = "connectThrows"
       THEN [ret |-> FALSE, ctx |-> id, gn |-> id,
             wired |-> wired, count |-> id, built |-> TRUE]
     ELSE [ret |-> TRUE, ctx |-> id, gn |-> id,
           wired |-> TRUE, count |-> id, built |-> TRUE]

\* The platform can still hand out a context (the bound of the model).
CanConstruct(outcome) ==
  audioContext # 0 \/ outcome = "ctorThrows" \/ ctxCount < MaxCtx

initAudioContext(outcome) ==
  /\ CanConstruct(outcome)
  /\ LET r == InitResult(outcome)
     IN /\ audioContext' = r.ctx
        /\ gainNode' = r.gn
        /\ wired' = r.wired
        /\ ctxCount' = r.count
        /\ last' = Call("initAudioContext", NoElem, 0, r.ret,
                        IF r.built THEN "built" ELSE "none")
  /\ UNCHANGED <<connectedElements, blockedSites, blockedElements,
                 audioSource, media, hostname, gain>>

\* ------------------------------------------------ isAmplificationAvailable
\* !isSiteBlocked() && (audioContext || initAudioContext()), by truthiness.
AvailableResult(outcome) ==
  IF isSiteBlocked
  THEN [ret |-> FALSE, ctx |-> audioContext, gn |-> gainNode,
        wired |-> wired, count |-> ctxCount, built |-> FALSE]
  ELSE InitResult(outcome)

isAmplificationAvailable(outcome) ==
  /\ isSiteBlocked \/ CanConstruct(outcome)
  /\ LET r == AvailableResult(outcome)
     IN /\ audioContext' = r.ctx
        /\ gainNode' = r.gn
        /\ wired' = r.wired
        /\ ctxCount' = r.count
        /\ last' = Call("isAmplificationAvailable", NoElem, 0, r.ret,
                        IF r.built THEN "built" ELSE "none")
  /\ UNCHANGED <<connectedElements, blockedSites, blockedElements,
                 audioSource, media, hostname, gain>>

\* ------------------------------------------------------- markSiteAsBlocked
markSiteAsBlocked ==
  /\ blockedSites' = blockedSites \cup {ToLowerCase(hostname)}
  /\ last' = Call("markSiteAsBlocked", NoElem, 0, TRUE, "none")
  /\ UNCHANGED <<audioContext, gainNode, connectedElements, blockedElements,
                 audioSource, media, hostname, ctxCount, wired, gain>>

\* ------------------------------------- shouldBlockAmplification, as a call
shouldBlock(element) ==
  /\ last' = Call("shouldBlockAmplification", element, 0,
                  shouldBlockAmplification(element), "none")
  /\ UNCHANGED <<audioContext, gainNode, connectedElements, blockedSites,
                 blockedElements, audioSource, media, hostname, ctxCount,
                 wired, gain>>

\* ------------------------------------------------ tryConnectToAudioContext
BindOutcomes == {"ok", "throws"}

\* What tryConnectToAudioContext(element) returns and leaves behind when
\* createMediaElementSource / source.connect behave as bind says.  path
\* names the return statement taken: "nograph" (128), "tracked" (131),
\* "marker" (141), "blocked" (148), "bound" (163), "failed" (177).
ConnectSame ==
  [ret |-> FALSE, path |-> "nograph", tracked |-> connectedElements,
   blocked |-> blockedElements, source |-> audioSource]

\* Faulty variant: the block check runs before the two short-circuits.
ConnectBlockFirst(element, bind) ==
  IF audioContext = 0 \/ gainNode = 0 THEN ConnectSame
  ELSE IF shouldBlockAmplification(element)
    THEN [ConnectSame EXCEPT !.path = "blocked"]
  ELSE IF element \in connectedElements
    THEN [ConnectSame EXCEPT !.ret = TRUE, !.path = "tracked"]
  ELSE IF audioSource[element] # 0
    THEN [ConnectSame EXCEPT !.ret = TRUE, !.path = "marker",
                             !.tracked = connectedElements \cup {element}]
  ELSE IF bind = "ok"
    THEN [ConnectSame EXCEPT !.ret = TRUE, !.path = "bound",
                             !.tracked = connectedElements \cup {element},
                             !.source = [audioSource EXCEPT ![element] = gainNode]]
  ELSE [ConnectSame EXCEPT !.path = "failed",
                           !.blocked = blockedElements \cup {element}]

\* The part of the function all the following variants share (128-142).
ConnectShort(element, rest) ==
  IF audioContext = 0 \/ gainNode = 0 THEN ConnectSame
  ELSE IF element \in connectedElements
    THEN [ConnectSame EXCEPT !.ret = TRUE, !.path = "tracked"]
  ELSE IF audioSource[element] # 0
    THEN [ConnectSame EXCEPT !.ret = TRUE, !.path = "marker",
                             !.tracked = connectedElements \cup {element}]
  ELSE rest

ConnectBound(element) ==
  [ConnectSame EXCEPT !.ret = TRUE, !.path = "bound",
                      !.tracked = connectedElements \cup {element},
                      !.source = [audioSource EXCEPT ![element] = gainNode]]

\* Faulty variant: connectedElements.add runs before the binding call, so
\* an element whose binding throws stays tracked.
ConnectAddBeforeBind(element, bind) ==
  ConnectShort(element,
    IF shouldBlockAmplification(element)
      THEN [ConnectSame EXCEPT !.path = "blocked"]
    ELSE IF bind = "ok" THEN ConnectBound(element)
    ELSE [ConnectSame EXCEPT !.path = "failed",
                             !.tracked = connectedElements \cup {element},
                             !.blocked = blockedElements \cup {element}])

\* Faulty variant: an element refused by the block check is cached in
\* blockedElements.
ConnectCacheRefused(element, bind) ==
  ConnectShort(element,
    IF shouldBlockAmplification(element)
      THEN [ConnectSame EXCEPT !.path = "blocked",
                               !.blocked = blockedElements \cup {element}]
    ELSE IF bind = "ok" THEN ConnectBound(element)
    ELSE [ConnectSame EXCEPT !.path = "failed",
                             !.blocked = blockedElements \cup {element}])

\* Faulty variant: the catch block does not record the failed element.
ConnectForgetFailed(element, bind) ==
  ConnectShort(element,
    IF shouldBlockAmplification(element)
      THEN [ConnectSame EXCEPT !.path = "blocked"]
    ELSE IF bind = "ok" THEN ConnectBound(element)
    ELSE [ConnectSame EXCEPT !.path = "failed"])

\* Faulty variant: the block check made at discovery is trusted, and not
\* made again before the binding call.
ConnectNoRecheck(element, bind) ==
  ConnectShort(element,
    IF element \in blockedElements
      THEN [ConnectSame EXCEPT !.path = "blocked"]
    ELSE IF bind = "ok" THEN ConnectBound(element)
    ELSE [ConnectSame EXCEPT !.path = "failed",
                             !.blocked = blockedElements \cup {element}])

ConnectResult(element, bind) ==
  LET same == [ret |-> FALSE, path |-> "nograph",
               tracked |-> connectedElements, blocked |-> blockedElements,
               source |-> audioSource]
  IN IF audioContext = 0 \/ gainNode = 0 THEN same
     ELSE IF element \in connectedElements
       THEN [same EXCEPT !.ret = TRUE, !.path = "tracked"]
     ELSE IF audioSource[element] # 0
       THEN [same EXCEPT !.ret = TRUE, !.path = "marker",
                         !.tracked = connectedElements \cup {element}]
     ELSE IF shouldBlockAmplification(element)
       THEN [same EXCEPT !.path = "blocked"]
     ELSE IF bind = "ok"
       THEN [same EXCEPT !.ret = TRUE, !.path = "bound",
                         !.tracked = connectedElements \cup {element},
                         !.source = [audioSource EXCEPT ![element] = gainNode]]
     ELSE [same EXCEPT !.path = "failed",
                       !.blocked = blockedElements \cup {element}]

\* Faulty variant: a failed binding marks the whole site as blocked.
ConnectMarksSite(element, bind) ==
  /\ LET r == ConnectResult(element, bind)
     IN /\ connectedElements' = r.tracked
        /\ blockedElements' = r.blocked
        /\ audioSource' = r.source
        /\ blockedSites' = IF r.path = "failed"
                           THEN blockedSites \cup {ToLowerCase(hostname)}
                           ELSE blockedSites
        /\ last' = Call("tryConnectToAudioContext", element, 0, r.ret, r.path)
  /\ UNCHANGED <<audioContext, gainNode, media, hostname, ctxCount, wired,
                 gain>>

tryConnectToAudioContext(element, bind) ==
  /\ LET r == ConnectResult(element, bind)
     IN /\ connectedElements' = r.tracked
        /\ blockedElements' = r.blocked
        /\ audioSource' = r.source
        /\ last' = Call("tryConnectToAudioContext", element, 0, r.ret, r.path)
  /\ UNCHANGED <<audioContext, gainNode, blockedSites, media, hostname,
                 ctxCount, wired, gain>>

\* ------------------------------------------------------------ setGainValue
\* Faulty variant: the gain is the amplification beyond 100%.
GainBeyond(volume) == ((volume - 100) * GainScale) \div VOLUME_MAX

\* volume / VOLUME_MAX, in 1/GainScale.
GainFor(volume) == (volume * GainScale) \div VOLUME_MAX

\* Faulty variant: the site cache is not consulted.
GainGuardNoSite ==
  gainNode # 0 /\ Cardinality(connectedElements) > 0

GainGuard ==
  gainNode # 0 /\ ~isSiteBlocked /\ Cardinality(connectedElements) > 0

\* The gain values after setGainValue(volume).
GainResult(volume) ==
  IF GainGuard THEN GainFor(volume) ELSE gain

setGainValue(volume) ==
  /\ gain' = GainResult(volume)
  /\ last' = Call("setGainValue", NoElem, volume, TRUE,
                  IF GainGuard THEN "written" ELSE "skipped")
  /\ UNCHANGED <<audioContext, gainNode, connectedElements, blockedSites,
                 blockedElements, audioSource, media, hostname, ctxCount,
                 wired>>

\* ------------------------------------------------------ cleanupAudioSource
\* Faulty variant: the source node is disconnected and forgotten.
CleanupDisconnects(element) ==
  /\ connectedElements' = connectedElements \ {element}
  /\ audioSource' = [audioSource EXCEPT ![element] = 0]
  /\ last' = Call("cleanupAudioSource", element, 0, TRUE, "none")
  /\ UNCHANGED <<audioContext, gainNode, blockedSites, blockedElements,
                 media, hostname, ctxCount, wired, gain>>

cleanupAudioSource(element) ==
  /\ connectedElements' = connectedElements \ {element}
  /\ last' = Call("cleanupAudioSource", element, 0, TRUE, "none")
  /\ UNCHANGED <<audioContext, gainNode, blockedSites, blockedElements,
                 audioSource, media, hostname, ctxCount, wired, gain>>

\* ------------------------------------------------------------------- reset
\* Faulty variant: reset disconnects and deletes element._audioSource.
ResetSourcesCleared == [e \in Elements |-> 0]

\* element._audioSource of every element after reset(): untouched.
ResetSources == audioSource

\* Faulty variant: close() is not wrapped in try/catch, so an exception of
\* close() leaves reset before the graph and TrackedSet are cleared.
ResetUnguardedClose(closeThrows) ==
  /\ blockedSites' = {}
  /\ blockedElements' = {}
  /\ IF audioContext # 0 /\ closeThrows
     THEN UNCHANGED <<audioContext, gainNode, connectedElements, wired, gain>>
     ELSE /\ audioContext' = 0
          /\ gainNode' = 0
          /\ connectedElements' = {}
          /\ wired' = FALSE
          /\ gain' = DefaultGain
  /\ audioSource' = ResetSources
  /\ last' = Call("reset", NoElem, 0, TRUE,
                  IF audioContext # 0 /\ closeThrows THEN "swallowed" ELSE "none")
  /\ UNCHANGED <<media, hostname, ctxCount>>

\* closeThrows: audioContext.close() throws; the catch swallows it.
reset(closeThrows) ==
  /\ blockedSites' = {}
  /\ blockedElements' = {}
  /\ audioContext' = 0
  /\ gainNode' = 0
  /\ connectedElements' = {}
  /\ audioSource' = ResetSources
  /\ wired' = FALSE
  /\ gain' = DefaultGain
  /\ last' = Call("reset", NoElem, 0, TRUE,
                  IF audioContext # 0 /\ closeThrows THEN "swallowed" ELSE "none")
  /\ UNCHANGED <<media, hostname, ctxCount>>

\* ------------------------------------------------------------- environment
\* The call c reported element blocked: shouldBlockAmplification returned
\* true, tryConnectToAudioContext returned false at 148 or 177, or c is a
\* swap of the element's sources that came right after such a report.
ReportedBlocked(c, element) ==
  /\ c.e = element
  /\ \/ c.op = "shouldBlockAmplification" /\ c.ret
     \/ c.op = "tryConnectToAudioContext" /\ c.path \in {"blocked", "failed"}
     \/ c.op = "swapSource" /\ c.path = "afterBlock"

\* The page swaps the sources of an element (element.src = ..., a new
\* <source>, a new resource selected).  The record of the swap keeps
\* whether the manager had just reported the element blocked.
SwapSource(element, m) ==
  /\ media[element] # m
  /\ media' = [media EXCEPT ![element] = m]
  /\ last' = Call("swapSource", element, 0, TRUE,
                  IF ReportedBlocked(last, element) THEN "afterBlock" ELSE "none")
  /\ UNCHANGED <<audioContext, gainNode, connectedElements, blockedSites,
                 blockedElements, audioSource, hostname, ctxCount, wired,
                 gain>>

Next ==
  \/ \E outcome \in GraphOutcomes : initAudioContext(outcome)
  \/ \E outcome \in GraphOutcomes : isAmplificationAvailable(outcome)
  \/ markSiteAsBlocked
  \/ \E element \in Elements : shouldBlock(element)
  \/ \E element \in Elements, bind \in BindOutcomes :
        tryConnectToAudioContext(element, bind)
  \/ \E volume \in Volumes : setGainValue(volume)
  \/ \E element \in Elements : cleanupAudioSource(element)
  \/ \E closeThrows \in BOOLEAN : reset(closeThrows)
  \/ \E element \in Elements, m \in PageMedia : SwapSource(element, m)

Spec == Init /\ [][Next]_vars

TypeOK ==
  /\ audioContext \in 0..MaxCtx
  /\ gainNode \in 0..MaxCtx
  /\ connectedElements \subseteq Elements
  /\ blockedElements \subseteq Elements
  /\ blockedSites \subseteq {ToLowerCase(h) : h \in PageHostnames}
  /\ audioSource \in [Elements -> 0..MaxCtx]
  /\ media \in [Elements -> PageMedia]
  /\ ctxCount \in 0..MaxCtx
  /\ wired \in BOOLEAN
  /\ gain \in {GainFor(v) : v \in Volumes} \cup {DefaultGain}

\* ------------------------------------- isCrossOriginElement on every input
\* element.crossOrigin: null, or a CORS setting.
CrossOrigins == {"null", "anonymous"}

\* Every combination of crossOrigin, src, currentSrc and <source> src.
AllMedia ==
  [crossOrigin : CrossOrigins, src : Urls, currentSrc : Urls,
   sourceSrc : Urls]

\* A fresh manager on a page whose first element has any of the sources.
InitXO ==
  /\ audioContext = 0
  /\ gainNode = 0
  /\ connectedElements = {}
  /\ blockedSites = {}
  /\ blockedElements = {}
  /\ audioSource = [e \in Elements |-> 0]
  /\ \E m \in AllMedia :
       media = [e \in Elements |-> IF e = "e1" THEN m ELSE MediaNone]
  /\ hostname \in PageHostnames
  /\ ctxCount = 0
  /\ wired = FALSE
  /\ gain = DefaultGain
  /\ last = Call("new", NoElem, 0, TRUE, "none")

\* isCrossOriginElement, as a call.
crossOriginCheck(element) ==
  /\ last' = Call("isCrossOriginElement", element, 0,
                  isCrossOriginElement(element), "none")
  /\ UNCHANGED <<audioContext, gainNode, connectedElements, blockedSites,
                 blockedElements, audioSource, media, hostname, ctxCount,
                 wired, gain>>

NextXO ==
  \/ \E element \in Elements : crossOriginCheck(element)
  \/ \E element \in Elements : shouldBlock(element)

SpecXO == InitXO /\ [][NextXO]_vars

\* ================================================================ claims
IsConnect(c) == c.op = "tryConnectToAudioContext"
IsSetGain(c) == c.op = "setGainValue"
Attempted(c) == c.path \in {"bound", "failed"}

\* C1: the binding marker of an element, once set, is never removed or
\* replaced (not by untrack, not by reset); a platform binding succeeds
\* only on an element without a marker; and no connect on an element that
\* carries a marker makes a platform binding attempt.
BindingAtMostOnce ==
  [][\A e \in Elements :
       /\ audioSource[e] # 0 => audioSource'[e] = audioSource[e]
       /\ audioSource'[e] # audioSource[e] =>
            IsConnect(last') /\ last'.e = e /\ last'.path = "bound"
       /\ (IsConnect(last') /\ last'.e = e /\ audioSource[e] # 0) =>
            /\ ~Attempted(last')
            /\ last'.ret => last'.path \in {"tracked", "marker"}]_vars

\* C1 witness: after a reset and a new graph, connect re-registered an
\* element through the marker of its earlier binding.
BindingAtMostOnceWitness ==
  /\ IsConnect(last) /\ last.path = "marker"
  /\ audioSource[last.e] # gainNode
  /\ last.e \in connectedElements

\* C2: connect on an element that is tracked returns true, makes no
\* platform binding attempt and leaves TrackedSet, BlockedElementSet, the
\* markers and the graph unchanged.
ConnectIdempotent ==
  [][(IsConnect(last') /\ last'.e \in connectedElements) =>
       /\ last'.ret /\ ~Attempted(last')
       /\ UNCHANGED <<connectedElements, blockedElements, audioSource,
                      audioContext, gainNode, wired, gain, ctxCount>>]_vars

\* C2 witness: a connect found the element tracked, while the element's
\* live cross-origin check reports true.
ConnectIdempotentWitness ==
  /\ IsConnect(last) /\ last.path = "tracked"
  /\ last.e \in connectedElements
  /\ isCrossOriginElement(last.e)

\* C3: no element is in both TrackedSet and BlockedElementSet.
TrackedBlockedDisjoint == connectedElements \cap blockedElements = {}

\* C3 witness: one element is tracked while another one is blocked.
TrackedBlockedDisjointWitness ==
  connectedElements # {} /\ blockedElements # {}

\* C4: the gain stage exists if and only if the audio context exists.
GraphIff == (gainNode # 0) <=> (audioContext # 0)

\* C5 (as stated): connect on an unmarked, untracked element whose live
\* cross-origin check reports true, with a graph present, returns false
\* without a binding attempt, leaves TrackedSet unchanged, and afterwards
\* BlockedElementSet contains the element.
RefusedPre(e) ==
  /\ audioContext # 0 /\ gainNode # 0
  /\ audioSource[e] = 0
  /\ e \notin connectedElements
  /\ isCrossOriginElement(e)

CrossOriginRefusedAndCached ==
  [][(IsConnect(last') /\ RefusedPre(last'.e)) =>
       /\ ~last'.ret /\ ~Attempted(last')
       /\ connectedElements' = connectedElements
       /\ last'.e \in blockedElements']_vars

\* C5 (amended): ... returns false without a binding attempt and leaves
\* both TrackedSet and BlockedElementSet unchanged.
CrossOriginRefused ==
  [][(IsConnect(last') /\ RefusedPre(last'.e)) =>
       /\ ~last'.ret /\ ~Attempted(last')
       /\ connectedElements' = connectedElements
       /\ blockedElements' = blockedElements]_vars

\* C5 witness: connect refused a cross-origin element that is in no set.
CrossOriginRefusedWitness ==
  /\ IsConnect(last) /\ last.path = "blocked" /\ ~last.ret
  /\ RefusedPre(last.e)
  /\ last.e \notin blockedElements

\* C6 (as stated): once an element was reported blocked (shouldBlock
\* returned true, or connect returned false by the block check or a failed
\* binding), the connect on it that comes next, directly or after swaps of
\* its sources, does not return true and does not add it to TrackedSet.
BlockedIsTerminal ==
  [][(IsConnect(last') /\ ReportedBlocked(last, last'.e)) =>
       /\ ~last'.ret
       /\ (last'.e \in connectedElements' => last'.e \in connectedElements)]_vars

\* C6 (amended): once an element is in BlockedElementSet (its binding
\* failed), it stays there until the next reset, and no connect before
\* that reset returns true for it or adds it to TrackedSet, whatever its
\* sources become.
FailedIsTerminal ==
  [][\A e \in blockedElements :
       last'.op # "reset" =>
         /\ e \in blockedElements'
         /\ ~(IsConnect(last') /\ last'.e = e /\ last'.ret)
         /\ e \notin connectedElements']_vars

\* C6 witness: connect refused an element whose binding had failed and
\* whose sources no longer are cross-origin.
FailedIsTerminalWitness ==
  /\ IsConnect(last) /\ ~last.ret /\ last.path = "blocked"
  /\ last.e \in blockedElements
  /\ ~isCrossOriginElement(last.e)
  /\ audioContext # 0 /\ gainNode # 0

\* C7: when the platform binding call of connect(e) throws, connect
\* returns false and e is in BlockedElementSet; and every connect on an
\* element of BlockedElementSet returns false without a binding attempt.
NoRetryAfterFailure ==
  [][IsConnect(last') =>
       /\ last'.path = "failed" =>
            ~last'.ret /\ last'.e \in blockedElements'
       /\ last'.e \in blockedElements =>
            ~last'.ret /\ ~Attempted(last')
            /\ blockedElements' = blockedElements]_vars

\* C7 witness: the binding call just threw and the element is recorded.
NoRetryAfterFailureWitness ==
  /\ IsConnect(last) /\ last.path = "failed" /\ ~last.ret
  /\ last.e \in blockedElements

\* C8: setGain writes the gain stage exactly when the origin is not
\* blocked, the graph exists and TrackedSet is not empty, for every volume;
\* otherwise it changes neither the gain value nor any set.
GainWritable ==
  /\ ToLowerCase(hostname) \notin blockedSites
  /\ audioContext # 0 /\ gainNode # 0
  /\ connectedElements # {}

GainOnlyWhenRouted ==
  [][IsSetGain(last') =>
       IF GainWritable
       THEN last'.path = "written" /\ gain' = GainFor(last'.arg)
       ELSE /\ last'.path = "skipped"
            /\ UNCHANGED <<gain, connectedElements, blockedElements,
                           blockedSites, audioSource, audioContext,
                           gainNode>>]_vars

\* C8 witness: setGain was skipped on a blocked origin although the graph
\* exists and an element is tracked.
GainOnlyWhenRoutedWitness ==
  /\ IsSetGain(last) /\ last.path = "skipped" /\ last.arg = 500
  /\ isSiteBlocked /\ gainNode # 0 /\ connectedElements # {}
  /\ gain = DefaultGain

\* C9: an applied setGain(volumePercent) leaves gain = volumePercent / 100.
GainIsPercentOverHundred ==
  [][(IsSetGain(last') /\ last'.path = "written") =>
       gain' * 100 = last'.arg * GainScale]_vars

\* C9 witness: setGain(500) was applied and the gain is 5.0.
GainIsPercentOverHundredWitness ==
  /\ IsSetGain(last) /\ last.path = "written" /\ last.arg = 500
  /\ gain = 5 * GainScale

\* C10: when isAvailable() has just returned true, e has no marker,
\* shouldBlock(e) is false and the binding call does not throw, the
\* connect(e) that follows returns true and e is in TrackedSet.
AvailableImpliesConnectable ==
  [][(/\ last.op = "isAmplificationAvailable" /\ last.ret
      /\ IsConnect(last')
      /\ audioSource[last'.e] = 0
      /\ ~shouldBlockAmplification(last'.e)
      /\ last'.path # "failed") =>
       last'.ret /\ last'.e \in connectedElements']_vars

IsAvailable(c) == c.op = "isAmplificationAvailable"
IsEnsureGraph(c) == c.op = "initAudioContext"
IsCleanup(c) == c.op = "cleanupAudioSource"
IsReset(c) == c.op = "reset"

\* C11: isAvailable() returns true exactly when the lower-cased hostname
\* is not in BlockedOriginSet and the graph (context and gain stage)
\* existed already or the call built one, wired to the output; once
\* markOriginBlocked() has run the hostname stays in BlockedOriginSet, and
\* isAvailable() returns false, until the next reset.
AvailableIffUnblockedAndGraph ==
  [][/\ IsAvailable(last') =>
          (last'.ret <=>
             /\ ToLowerCase(hostname) \notin blockedSites
             /\ \/ audioContext # 0 /\ gainNode # 0
                \/ /\ last'.path = "built"
                   /\ audioContext' # 0 /\ gainNode' # 0 /\ wired')
     /\ last'.op = "markSiteAsBlocked" =>
          ToLowerCase(hostname) \in blockedSites'
     /\ (ToLowerCase(hostname) \in blockedSites /\ ~IsReset(last')) =>
          ToLowerCase(hostname) \in blockedSites']_vars

\* C12: untrack(e) removes e from TrackedSet and changes nothing else: the
\* markers, BlockedElementSet, BlockedOriginSet, the graph and the gain
\* value are unchanged.
UntrackOnlyUntracks ==
  [][IsCleanup(last') =>
       /\ connectedElements' = connectedElements \ {last'.e}
       /\ UNCHANGED <<audioSource, blockedElements, blockedSites,
                      audioContext, gainNode, wired, gain, media>>]_vars

\* C12 witness: a bound element was untracked while another one stays
\* tracked, and its marker is still set.
UntrackOnlyUntracksWitness ==
  /\ IsCleanup(last)
  /\ last.e \notin connectedElements
  /\ audioSource[last.e] # 0
  /\ connectedElements # {}

\* C13: after reset() TrackedSet, BlockedOriginSet and BlockedElementSet
\* are empty and the context and the gain stage are absent, whether or not
\* close() throws; every marker is unchanged.
ResetClearsAll ==
  [][IsReset(last') =>
       /\ connectedElements' = {}
       /\ blockedSites' = {}
       /\ blockedElements' = {}
       /\ audioContext' = 0 /\ gainNode' = 0
       /\ audioSource' = audioSource]_vars

\* C13 witness: a reset whose close() threw, with a bound element.
ResetClearsAllWitness ==
  /\ IsReset(last) /\ last.path = "swallowed"
  /\ \E e \in Elements : audioSource[e] # 0
  /\ connectedElements = {} /\ audioContext = 0

\* C14: ensureGraph() returning false leaves context and gain stage
\* absent; returning true leaves a context with a gain stage wired to the
\* output; and a call made while such a graph exists returns true without
\* constructing anything.
EnsureGraphMatchesState ==
  [][IsEnsureGraph(last') =>
       /\ ~last'.ret => audioContext' = 0 /\ gainNode' = 0
       /\ last'.ret => audioContext' # 0 /\ gainNode' # 0 /\ wired'
       /\ (audioContext # 0 /\ gainNode # 0 /\ wired) =>
            last'.ret /\ last'.path # "built"]_vars

\* C15: shouldBlock(e) changes no set and nothing of the graph, and its
\* result is decided by whether e is in BlockedElementSet and by the
\* cross-origin status of e's own sources alone.
ShouldBlockElementScoped ==
  [][last'.op = "shouldBlockAmplification" =>
       /\ UNCHANGED <<connectedElements, blockedElements, blockedSites,
                      audioContext, gainNode, wired, gain, audioSource,
                      media>>
       /\ last'.ret <=>
            (last'.e \in blockedElements \/ CrossOriginOf(media[last'.e]))]_vars

\* C15 witness: shouldBlock(e) returned false although the site is marked
\* blocked and the other element is cross-origin and in BlockedElementSet.
ShouldBlockElementScopedWitness ==
  /\ last.op = "shouldBlockAmplification" /\ ~last.ret
  /\ "page.example" \in blockedSites
  /\ \E other \in Elements \ {last.e} :
       other \in blockedElements /\ CrossOriginOf(media[other])

\* C18: a platform binding attempt is made only on an element that, in
\* the state the connect call starts in, is not in BlockedElementSet and
\* whose sources are not cross-origin.
CheckBeforeBind ==
  [][(IsConnect(last') /\ Attempted(last')) =>
       /\ last'.e \notin blockedElements
       /\ ~CrossOriginOf(media[last'.e])]_vars

\* C18 witness: an element was bound after its sources had been swapped
\* away from the cross-origin ones a block check had reported.
CheckBeforeBindWitness ==
  /\ IsConnect(last) /\ last.path = "bound"
  /\ media[last.e] = MediaSame
  /\ \E other \in Elements \ {last.e} :
       /\ CrossOriginOf(media[other])
       /\ audioSource[other] = 0
       /\ other \notin blockedElements

TrackedOnCurrentGain ==
  \A e \in connectedElements :
    audioSource[e] # 0 /\ audioSource[e] = gainNode

IsCrossOriginCall(c) == c.op = "isCrossOriginElement"

SourcesOf(m) == {m.src, m.currentSrc, m.sourceSrc}

\* C16: isCrossOrigin(e) returns true whenever one of e's consulted
\* sources is non-empty, is no data: or blob: reference and fails to
\* parse, whatever the other sources and the crossOrigin attribute are.
UnparsableIsCrossOrigin ==
  (/\ IsCrossOriginCall(last)
   /\ \E u \in SourcesOf(media[last.e]) : u.kind = "bad") => last.ret

\* C16 witness: the <source> URL does not parse, crossOrigin is set and
\* the other sources are same-origin and data:.
UnparsableIsCrossOriginWitness ==
  /\ IsCrossOriginCall(last) /\ last.ret
  /\ media[last.e] = [crossOrigin |-> "anonymous", src |-> UrlSame,
                      currentSrc |-> UrlData, sourceSrc |-> UrlBad]

\* C17: isCrossOrigin(e) returns false for every element all of whose
\* non-empty sources are data: or blob: references, for every crossOrigin
\* value and with currentSrc populated or not.
DataAndBlobAreSameOrigin ==
  (/\ IsCrossOriginCall(last)
   /\ \A u \in SourcesOf(media[last.e]) :
        u.kind \in {"empty", "data", "blob"}) => ~last.ret

=============================================================================
